---- MODULE Spec2Model ----
(***************************************************************************)
(* NoiseChip (ATtiny85): four square-wave oscillators advanced by the      *)
(* timer 0 compare-match interrupt, and a 16-bit LFSR pumped by the main   *)
(* loop.  Model of src/NoiseChip.ino.                                      *)
(***************************************************************************)
EXTENDS Integers, Sequences, FiniteSets, TLC

VARIABLES
    freq,       \* template argument `frequency` of Wave 1..4
    mpc,        \* position of main() in main_seq
    sub,        \* step inside the current statement of main()
    bi,         \* which Handler's begin() Timer::begin() is at
    I,          \* SREG global interrupt enable
    CS,         \* TCCR0B clock select set: timer 0 is counting
    OCIE0A,     \* TIMSK: compare match A interrupt enabled
    OCR0A,      \* compare value
    OCF0A,      \* TIFR: compare match A pending
    isr,        \* 0: not in the ISR; 1..4: Handler<isr>::tick() is next;
                \* 5: TIFR |= _BV(OCF0A) is next; 6: reti is next
    counter,    \* Wave::counter of Wave 1..4
    pin,        \* PORTB level of FastPin<0..4>
    ddr,        \* DDRB (output mode) of FastPin<0..4>
    reg,        \* LFSR::reg of lsfr1
    b,          \* bit returned by the last LFSR::next(), -1 before any call
    fires,      \* observer: handler invocations started
    acks,       \* observer: executions of TIFR |= _BV(OCF0A)
    hticks,     \* observer: tick() calls made by the handler, per Wave
    loops,      \* observer: LFSR::next() calls made
    writers,    \* observer: who wrote a counter, a level or reg, as
                \* <<context, I at the write>>
    sinceRise,  \* observer: ticks since the last LOW->HIGH edge, -1 if none
    measured,   \* observer: ticks between the last two LOW->HIGH edges, 0 if none
    rises,      \* observer: LOW->HIGH edges so far, per Wave
    highTicks,  \* observer: ticks spent HIGH before the last HIGH->LOW edge
    ops         \* observer: what the most recent tick() of each Wave executed

vars == <<freq, mpc, sub, bi, I, CS, OCIE0A, OCR0A, OCF0A, isr, counter, pin,
          ddr, reg, b, fires, acks, hticks, loops, writers, sinceRise, measured,
          rises, highTicks, ops>>

\* ------------------------------------------------------------- bounds
MaxFires == 320
MaxLoops == 3

\* ---------------------------------------------------------- constants
timer_period_us == 25
\* a third Wave of 100 Hz: 400 ticks per period
Configured_slow == <<1049, 717, 100, 392>>

Configured == <<1049, 717, 261, 392>>
lsfr1_seed == 2590                      \* 0xA1e
Byte == 2^8                             \* uint8_t
Word == 2^16                            \* uint16_t, and int on AVR
Waves == 1..4
Pins == 0..4
NoisePin == 4
WavePin(i) == i - 1
\* frequencies the Wave template is instantiated with when the
\* configuration is left open
FreqChoices == {1049, 100, 20000, 30000, 50000}

\* -------------------------------------------------- Wave (lines 23-68)
period_ticks_of_unscaled(tick_period_us, frequency) ==
    (1000000 \div frequency) % Byte

period_ticks_of_rounded(tick_period_us, frequency) ==
    ((1000000 + ((frequency * tick_period_us) \div 2))
        \div (frequency * tick_period_us)) % Byte

period_ticks_of(tick_period_us, frequency) ==
    ((1000000 \div frequency) \div tick_period_us) % Byte

half_period_ticks_of(p) == (p \div 2) % Byte

period_ticks(i) == period_ticks_of(timer_period_us, freq[i])
half_period_ticks(i) == half_period_ticks_of(period_ticks(i))

\* the counter reset as soon as it reaches period_ticks
tick_counter_strict(c, p) == IF c < p THEN (c + 1) % Byte ELSE 0

\* the else branch lost: the counter is never reset
tick_counter_no_reset(c, p) == IF c <= p THEN (c + 1) % Byte ELSE c

\* first if/else of tick(): the new counter
tick_counter(c, p) == IF c <= p THEN (c + 1) % Byte ELSE 0

tick_level_strict(c, h) == IF c < h THEN 1 ELSE 0

\* second if/else of tick(): the level driven, from the new counter
tick_level(c, h) == IF c <= h THEN 1 ELSE 0

\* tick() that drives the pin only when the level changes
tick_ops_on_change(c, p, h) ==
    LET n == IF c <= p THEN (c + 1) % Byte ELSE 0
    IN (IF c <= p THEN <<"cmp_period", "inc">> ELSE <<"cmp_period", "reset">>)
       \o (IF n = 0 THEN <<"cmp_zero", "setHigh">>
           ELSE IF n = h + 1 THEN <<"cmp_zero", "cmp_half", "setLow">>
           ELSE <<"cmp_zero", "cmp_half">>)

\* the comparisons, the counter write and the pin call tick() executes, in
\* order, when entered with counter = c
tick_ops(c, p, h) ==
    LET n == IF c <= p THEN (c + 1) % Byte ELSE 0
    IN (IF c <= p THEN <<"cmp_period", "inc">> ELSE <<"cmp_period", "reset">>)
       \o (IF n <= h THEN <<"cmp_half", "setHigh">>
           ELSE <<"cmp_half", "setLow">>)

Tag(ctx) == <<ctx, I>>

Wrote(w, names, ctx) ==
    [n \in DOMAIN w |-> IF n \in names THEN w[n] \cup {Tag(ctx)} ELSE w[n]]

\* Wave<i>::tick() called from context ctx
tick(i, ctx) ==
    LET c == tick_counter(counter[i], period_ticks(i))
        l == tick_level(c, half_period_ticks(i))
        rise == pin[WavePin(i)] = 0 /\ l = 1
        fall == pin[WavePin(i)] = 1 /\ l = 0
    IN /\ counter' = [counter EXCEPT ![i] = c]
       /\ pin' = [pin EXCEPT ![WavePin(i)] = l]
       /\ writers' = Wrote(writers, {"counter", "wavepin"}, ctx)
       /\ sinceRise' = [sinceRise EXCEPT ![i] =
                          IF rise THEN 0
                          ELSE IF @ >= 0 THEN @ + 1 ELSE @]
       /\ measured' = [measured EXCEPT ![i] =
                          IF rise /\ sinceRise[i] >= 0
                          THEN sinceRise[i] + 1 ELSE @]
       /\ rises' = [rises EXCEPT ![i] = IF rise THEN @ + 1 ELSE @]
       /\ highTicks' = [highTicks EXCEPT ![i] =
                          IF fall THEN sinceRise[i] + 1 ELSE @]
       /\ ops' = [ops EXCEPT ![i] =
                    tick_ops(counter[i], period_ticks(i), half_period_ticks(i))]

\* ------------------------------------------------- LFSR (lines 144-160)
\* x ^ y and x | y on the low n bits; the recursion is over function
\* application so that each operand is evaluated once
XorBits[x \in Nat, y \in Nat, n \in Nat] ==
    IF n = 0 THEN 0
    ELSE (((x % 2) + (y % 2)) % 2) + 2 * XorBits[x \div 2, y \div 2, n - 1]

OrBits[x \in Nat, y \in Nat, n \in Nat] ==
    IF n = 0 THEN 0
    ELSE (IF (x % 2) + (y % 2) > 0 THEN 1 ELSE 0)
         + 2 * OrBits[x \div 2, y \div 2, n - 1]

BitXor(x, y, n) == XorBits[x, y, n]
BitOr(x, y, n) == OrBits[x, y, n]

Shr(x, k) == x \div 2^k
Shl(x, k) == (x * 2^k) % Word

next_bit_tap2(r) ==
    BitXor(BitXor(BitXor(Shr(r, 0), Shr(r, 1), 16), Shr(r, 2), 16),
           Shr(r, 12), 16) % 2

\* uint8_t b = ((reg >> 0) ^ (reg >> 1) ^ (reg >> 3) ^ (reg >> 12)) & 1;
next_bit(r) ==
    BitXor(BitXor(BitXor(Shr(r, 0), Shr(r, 1), 16), Shr(r, 3), 16),
           Shr(r, 12), 16) % 2

\* the shift done in the width of b (uint8_t) loses the bit
next_reg_narrow(r) == BitOr(Shr(r, 1), (next_bit(r) * 2^15) % Byte, 16)

\* reg = (reg >> 1) | (b << 15);
next_reg(r) == BitOr(Shr(r, 1), Shl(next_bit(r), 15), 16)

\* bool LFSR::next() on lsfr1
next ==
    /\ b' = next_bit(reg)
    /\ reg' = next_reg(reg)

\* ---------------------------------------------------- main (lines 164-183)
main_seq_sei_first == <<"sei", "setup", "loop">>

main_seq == <<"setup", "sei", "loop">>

FirstSub(stmt) ==
    CASE stmt = "setup" -> "NoisePin"
      [] stmt = "sei" -> "sei"
      [] stmt = "loop" -> "next"

Stmt == main_seq[mpc]

\* the single core runs main() only while no handler is in progress
InMain(stmt, s) == isr = 0 /\ Stmt = stmt /\ sub = s

Advance ==
    /\ mpc' = mpc + 1
    /\ sub' = FirstSub(main_seq[mpc + 1])

waveObs == <<sinceRise, measured, rises, highTicks, ops>>
ghosts == <<fires, acks, hticks, loops, waveObs>>
timerRegs == <<CS, OCIE0A, OCR0A>>

\* setup(): NoisePin::setOutput();
SetupNoisePin ==
    /\ InMain("setup", "NoisePin")
    /\ ddr' = [ddr EXCEPT ![NoisePin] = TRUE]
    /\ sub' = "timer"
    /\ UNCHANGED <<freq, mpc, bi, I, timerRegs, OCF0A, isr, counter, pin, reg, b,
                   ghosts, writers>>

\* Timer::begin(), lines 99-113: the timer registers
TimerBeginRegs ==
    /\ InMain("setup", "timer")
    /\ OCIE0A' = TRUE
    /\ OCR0A' = timer_period_us
    /\ CS' = TRUE
    /\ sub' = "begin_out"
    /\ bi' = 1
    /\ UNCHANGED <<freq, mpc, I, OCF0A, isr, counter, pin, ddr, reg, b,
                   ghosts, writers>>

begin_next_skip3(k) == IF k = 2 THEN 4 ELSE k + 1

\* Timer::begin(), lines 115-118: the Handler whose begin() follows Handler k's
begin_next(k) == k + 1

\* Wave::begin(): pin::setOutput();
WaveBeginOut ==
    /\ InMain("setup", "begin_out")
    /\ ddr' = [ddr EXCEPT ![WavePin(bi)] = TRUE]
    /\ sub' = "begin_tick"
    /\ UNCHANGED <<freq, mpc, bi, I, timerRegs, OCF0A, isr, counter, pin, reg, b,
                   ghosts, writers>>

\* Wave::begin(): tick(); then Timer::begin() goes to the next Handler
WaveBeginTick ==
    /\ InMain("setup", "begin_tick")
    /\ tick(bi, "main")
    /\ bi' = begin_next(bi)
    /\ IF begin_next(bi) <= 4
       THEN sub' = "begin_out" /\ mpc' = mpc
       ELSE Advance
    /\ UNCHANGED <<freq, I, timerRegs, OCF0A, isr, ddr, reg, b,
                   fires, acks, hticks, loops>>

\* main(): sei();
Sei ==
    /\ InMain("sei", "sei")
    /\ I' = TRUE
    /\ Advance
    /\ UNCHANGED <<freq, bi, timerRegs, OCF0A, isr, counter, pin, ddr, reg, b,
                   ghosts, writers>>

\* loop(): lsfr1.next()
LoopNext ==
    /\ InMain("loop", "next")
    /\ loops < MaxLoops
    /\ next
    /\ loops' = loops + 1
    /\ sub' = "write"
    /\ writers' = Wrote(writers, {"reg"}, "main")
    /\ UNCHANGED <<freq, mpc, bi, I, timerRegs, OCF0A, isr, counter, pin, ddr,
                   fires, acks, hticks, waveObs>>

\* loop(): NoisePin::write(<returned bit>)
LoopWrite ==
    /\ InMain("loop", "write")
    /\ pin' = [pin EXCEPT ![NoisePin] = b]
    /\ sub' = "next"
    /\ writers' = Wrote(writers, {"noisepin"}, "main")
    /\ UNCHANGED <<freq, mpc, bi, I, timerRegs, OCF0A, isr, counter, ddr, reg, b,
                   ghosts>>

\* ------------------------------------- timer 0 and its ISR (lines 89-95, 140-142)
\* hardware: the running timer reaches OCR0A and raises the pending flag
CompareMatch ==
    /\ CS
    /\ ~OCF0A
    /\ OCF0A' = TRUE
    /\ UNCHANGED <<freq, mpc, sub, bi, I, timerRegs, isr, counter, pin, ddr,
                   reg, b, ghosts, writers>>

\* ISR_NOBLOCK: interrupts re-enabled on entry
ISR_attr_I_noblock == TRUE

\* I bit while the handler runs: ISR_BLOCK leaves interrupts disabled
ISR_attr_I == FALSE

handleCOMPA_next_skip3(k) == IF k = 2 THEN 4 ELSE k + 1

\* the statement of handleCOMPA() that follows statement k
handleCOMPA_next(k) == k + 1

\* hardware: vector TIM0_COMPA is taken; the flag is cleared on entry
\* (at most n invocations are explored)
ISR_vector(n) ==
    /\ I /\ OCIE0A /\ OCF0A
    /\ fires < n
    /\ OCF0A' = FALSE
    /\ I' = ISR_attr_I
    /\ isr' = 1
    /\ fires' = fires + 1
    /\ UNCHANGED <<freq, mpc, sub, bi, timerRegs, counter, pin, ddr, reg, b,
                   acks, hticks, loops, writers, waveObs>>

ISR_enter == ISR_vector(MaxFires)

\* handleCOMPA(): Handler<isr>::tick();
handleCOMPA_tick ==
    /\ isr \in Waves
    /\ tick(isr, "isr")
    /\ hticks' = [hticks EXCEPT ![isr] = @ + 1]
    /\ isr' = handleCOMPA_next(isr)
    /\ UNCHANGED <<freq, mpc, sub, bi, I, timerRegs, OCF0A, ddr, reg, b,
                   fires, acks, loops>>

\* handleCOMPA(): TIFR |= _BV(OCF0A);  writing one clears the flag
handleCOMPA_clear ==
    /\ isr = 5
    /\ OCF0A' = FALSE
    /\ acks' = acks + 1
    /\ isr' = handleCOMPA_next(isr)
    /\ UNCHANGED <<freq, mpc, sub, bi, I, timerRegs, counter, pin, ddr, reg, b,
                   fires, hticks, loops, writers, waveObs>>

\* reti
ISR_return ==
    /\ isr = 6
    /\ isr' = 0
    /\ I' = TRUE
    /\ UNCHANGED <<freq, mpc, sub, bi, timerRegs, OCF0A, counter, pin, ddr, reg, b,
                   ghosts, writers>>

\* ------------------------------------------------------ specifications
InitState(f, seed) ==
    /\ freq = f
    /\ mpc = 1
    /\ sub = FirstSub(main_seq[1])
    /\ bi = 1
    /\ I = FALSE
    /\ CS = FALSE
    /\ OCIE0A = FALSE
    /\ OCR0A = 0
    /\ OCF0A = FALSE
    /\ isr = 0
    /\ counter = [i \in Waves |-> 0]
    /\ pin = [p \in Pins |-> 0]
    /\ ddr = [p \in Pins |-> FALSE]
    /\ reg = seed
    /\ b = -1
    /\ fires = 0
    /\ acks = 0
    /\ hticks = [i \in Waves |-> 0]
    /\ loops = 0
    /\ writers = [n \in {"counter", "wavepin", "reg", "noisepin"} |-> {}]
    /\ sinceRise = [i \in Waves |-> -1]
    /\ measured = [i \in Waves |-> 0]
    /\ rises = [i \in Waves |-> 0]
    /\ highTicks = [i \in Waves |-> 0]
    /\ ops = [i \in Waves |-> <<>>]

\* the program as built
Init == InitState(Configured, lsfr1_seed)

Next ==
    \/ SetupNoisePin
    \/ TimerBeginRegs
    \/ WaveBeginOut
    \/ WaveBeginTick
    \/ Sei
    \/ LoopNext
    \/ LoopWrite
    \/ CompareMatch
    \/ ISR_enter
    \/ handleCOMPA_tick
    \/ handleCOMPA_clear
    \/ ISR_return

Spec == Init /\ [][Next]_vars

\* the program with the first Wave instantiated at any of FreqChoices
InitCfg ==
    \E f \in FreqChoices : InitState([Configured EXCEPT ![1] = f], lsfr1_seed)

SpecCfg == InitCfg /\ [][Next]_vars

\* bool LFSR::next() called on an LFSR by itself
LFSR_next ==
    /\ next
    /\ UNCHANGED <<freq, mpc, sub, bi, I, timerRegs, OCF0A, isr, counter, pin, ddr,
                   ghosts, writers>>

NextLFSR == LFSR_next

\* an LFSR constructed with any 16-bit seed, stepped by next()
InitLFSR == \E s \in 0..(Word - 1) : InitState(Configured, s)

SpecLFSR == InitLFSR /\ [][NextLFSR]_vars

\* an LFSR constructed with any non-zero seed, stepped by next()
InitSeeded == \E s \in 1..(Word - 1) : InitState(Configured, s)

SpecSeeded == InitSeeded /\ [][NextLFSR]_vars

\* ---------------------------------------------------------- properties
\* Wave i has had the tick() of its begin()
Begun(i) == bi > i
Running == Stmt = "loop"

\* C1: every Wave's counter stays within 0..period_ticks, in every state
\* after begin() and any number of tick() calls.
CounterWithinPeriod ==
    \A i \in Waves : 0 <= counter[i] /\ counter[i] <= period_ticks(i)

\* C2: for a Wave with period_ticks >= 2 the output repeats every
\* period_ticks ticks: two successive LOW->HIGH edges (with the one
\* HIGH->LOW edge between them) are exactly period_ticks ticks apart.
OutputPeriodIsPeriodTicks ==
    \A i \in Waves :
        (period_ticks(i) >= 2 /\ measured[i] # 0)
            => measured[i] = period_ticks(i)

\* C3: after begin() and after every tick(), a Wave's pin is HIGH if and
\* only if its counter, as updated by that tick, is <= half_period_ticks.
OutputFollowsCounter ==
    \A i \in Waves :
        Begun(i) => (pin[WavePin(i)] = 1 <=> counter[i] <= half_period_ticks(i))

C3Witness ==
    \E i \in Waves :
        /\ Begun(i) /\ hticks[i] > 0
        /\ pin[WavePin(i)] = 0
        /\ counter[i] > half_period_ticks(i)

BitAt(s, k) == (s \div 2^k) % 2
TapBit(s) == (BitAt(s, 0) + BitAt(s, 1) + BitAt(s, 3) + BitAt(s, 12)) % 2

\* C4: from every 16-bit state s, next() returns s[0] xor s[1] xor s[3] xor
\* s[12] and leaves s shifted right by one with that bit in bit 15; the
\* first call on seed 0xA1E returns 0.
NextIsTapFeedbackShift ==
    [][ /\ b' = TapBit(reg)
        /\ reg' = (reg \div 2) + (2^15 * TapBit(reg))
        /\ (reg = lsfr1_seed => b' = 0) ]_vars

C4Witness == b = 0 /\ reg = 1295

\* C5: from every non-zero seed the register is never 0, whatever the
\* number of next() calls.
RegNeverZero == reg # 0

C5Witness == b = 0 /\ reg = 1

IsrTags == {<<"isr", FALSE>>, <<"isr", TRUE>>}
MainTags == {<<"main", FALSE>>, <<"main", TRUE>>}

\* C6 as stated: counters and Wave pins are written only by the handler,
\* reg and the noise pin only by main(); nothing is written by both.
ExclusiveOwnership ==
    /\ writers["counter"] \subseteq IsrTags
    /\ writers["wavepin"] \subseteq IsrTags
    /\ writers["reg"] \subseteq MainTags
    /\ writers["noisepin"] \subseteq MainTags

\* C6 as amended: main() writes counters and Wave pins only with interrupts
\* disabled (the tick() of each begin(), before sei()), the handler writes
\* them otherwise; reg and the noise pin are written only by main().
OwnershipAfterStartup ==
    /\ writers["counter"] \subseteq (IsrTags \cup {<<"main", FALSE>>})
    /\ writers["wavepin"] \subseteq (IsrTags \cup {<<"main", FALSE>>})
    /\ writers["reg"] \subseteq MainTags
    /\ writers["noisepin"] \subseteq MainTags
    /\ (Stmt = "setup" => isr = 0 /\ fires = 0)

C6Witness ==
    /\ <<"main", FALSE>> \in writers["counter"]
    /\ <<"isr", FALSE>> \in writers["counter"]
    /\ <<"isr", FALSE>> \in writers["wavepin"]
    /\ <<"main", TRUE>> \in writers["reg"]
    /\ <<"main", TRUE>> \in writers["noisepin"]

\* C7: each handler invocation ticks Wave 1, 2, 3, 4 once each in that
\* order and clears the pending flag only after the fourth; after n
\* completed invocations every Wave has had n ticks from the handler.
HandlerTicksEachOnceInOrder ==
    LET done == IF isr = 0 THEN fires ELSE fires - 1
    IN /\ \A i \in Waves :
            hticks[i] = done + (IF isr # 0 /\ i < isr THEN 1 ELSE 0)
       /\ acks = done + (IF isr = 6 THEN 1 ELSE 0)

C7Witness ==
    /\ isr = 6 /\ fires = 3 /\ acks = 3
    /\ \A i \in Waves : hticks[i] = 3

\* C8: a configuration with period_ticks < 2 never reaches the running
\* state (handler firing, main loop pumping).
DegenerateConfigNeverRuns ==
    (Running \/ fires > 0) => \A i \in Waves : period_ticks(i) >= 2

Expected == <<38, 56, 153, 102>>

\* C9: at 25 us and 1049, 717, 261, 392 Hz the period_ticks are within 1
\* of 38, 56, 153, 102; each half_period_ticks is floor(period_ticks / 2);
\* both are >= 1.
ConfiguredPeriodTicks ==
    \A i \in Waves :
        LET p == period_ticks(i)
            h == half_period_ticks(i)
        IN /\ OCR0A \in {0, 25}
           /\ freq[i] = Configured[i]
           /\ p - Expected[i] \in {-1, 0, 1}
           /\ 2 * h <= p /\ p < 2 * h + 2
           /\ p >= 1 /\ h >= 1

C9Witness ==
    /\ Running /\ OCR0A = 25
    /\ \A i \in Waves : hticks[i] > 0

Nearest(n, d) == ((2 * n) + d) \div (2 * d)

\* C10 as stated: period_ticks is the integer nearest to
\* 1000000 / (frequency * tick_period_us).
PeriodTicksIsNearest ==
    \A i \in Waves :
        period_ticks(i) = Nearest(1000000, freq[i] * timer_period_us)

\* C10 as amended: period_ticks is 1000000 / (frequency * tick_period_us)
\* rounded down, and fits 8 bits.
PeriodTicksIsTruncated ==
    \A i \in Waves :
        LET p == period_ticks(i)
            d == freq[i] * timer_period_us
        IN /\ p * d <= 1000000
           /\ 1000000 < (p + 1) * d
           /\ p < Byte

C10Witness ==
    /\ Running /\ hticks[2] > 0
    /\ period_ticks(2) = 55
    /\ Nearest(1000000, freq[2] * timer_period_us) = 56

\* ------------------------------------------------- 10,000 simulated ticks
SimTicks == 10000

\* the handler is invoked SimTicks times
SimFire == ISR_vector(SimTicks)

\* startup and the timer interrupt alone, the main loop left out
NextSim ==
    \/ SetupNoisePin
    \/ TimerBeginRegs
    \/ WaveBeginOut
    \/ WaveBeginTick
    \/ Sei
    \/ CompareMatch
    \/ SimFire
    \/ handleCOMPA_tick
    \/ handleCOMPA_clear
    \/ ISR_return

SpecSim == Init /\ [][NextSim]_vars

\* C11: after 10,000 handler ticks each Wave has completed within one of
\* 10000 / period_ticks output cycles.
CyclesIn10000Ticks ==
    (fires = SimTicks /\ isr = 0) =>
        \A i \in Waves :
            rises[i] - (SimTicks \div period_ticks(i)) \in {-1, 0, 1}

\* C13: while a handler invocation is in progress no main-loop step runs
\* (no next(), no noise-pin write, main() does not move) and no new
\* invocation begins; the invocation goes through its four ticks and the
\* flag clear, in order, to its return.
HandlerIsAtomic ==
    [][ isr # 0 =>
          /\ fires' = fires
          /\ reg' = reg /\ b' = b /\ loops' = loops
          /\ pin'[NoisePin] = pin[NoisePin]
          /\ mpc' = mpc /\ sub' = sub
          /\ isr' \in {isr, isr + 1, 0}
          /\ (isr' = 0 => isr = 6 /\ acks = fires) ]_vars

C13Witness ==
    /\ isr = 3 /\ OCF0A
    /\ Running /\ sub = "write"
    /\ fires >= 2

\* C14: Wave::begin() sets its pin to output and then ticks once;
\* Timer::begin() sets up the timer first and then begins Wave 1, 2, 3, 4
\* in that order; when startup is complete every Wave has counter = 1 and
\* its pin driven HIGH.
BeginEstablishesLevels ==
    /\ Stmt = "setup" =>
         /\ sub \in {"begin_out", "begin_tick"} =>
              CS /\ OCIE0A /\ OCR0A = timer_period_us
         /\ sub = "begin_tick" => ddr[WavePin(bi)]
         /\ \A i \in Waves :
              IF sub \in {"begin_out", "begin_tick"} /\ i < bi
              THEN counter[i] = 1 /\ pin[WavePin(i)] = 1 /\ ddr[WavePin(i)]
              ELSE counter[i] = 0 /\ pin[WavePin(i)] = 0
    /\ Stmt = "sei" =>
         \A i \in Waves :
             /\ counter[i] = 1 /\ pin[WavePin(i)] = 1 /\ ddr[WavePin(i)]
             /\ rises[i] = 1 /\ Len(ops[i]) > 0

C14Witness ==
    /\ Stmt = "sei" /\ CS /\ ddr[NoisePin]
    /\ \A i \in Waves : counter[i] = 1 /\ pin[WavePin(i)] = 1

\* --------------------------------------------------------------- fairness
\* The core always executes the next instruction of whichever context it
\* is in, and the running timer keeps reaching OCR0A; the main loop is
\* preempted again and again, so its steps get strong fairness.
Fairness ==
    /\ WF_vars(SetupNoisePin)
    /\ WF_vars(TimerBeginRegs)
    /\ WF_vars(WaveBeginOut)
    /\ WF_vars(WaveBeginTick)
    /\ WF_vars(Sei)
    /\ SF_vars(LoopNext)
    /\ SF_vars(LoopWrite)
    /\ WF_vars(CompareMatch)
    /\ WF_vars(ISR_enter)
    /\ WF_vars(handleCOMPA_tick)
    /\ WF_vars(handleCOMPA_clear)
    /\ WF_vars(ISR_return)

SpecFair == Init /\ [][Next]_vars /\ Fairness

\* enough handler invocations are left for a whole cycle of Wave i
CycleLeft(i) == fires + period_ticks(i) + 2 <= MaxFires

\* every handler invocation and every loop iteration explored has run
Horizon ==
    /\ fires = MaxFires /\ isr = 0
    /\ loops = MaxLoops /\ sub = "next"

\* C15: the system never stops short of the explored horizon (every timer
\* fire is handled, every loop iteration calls next() and writes the bit);
\* a Wave pin that is HIGH goes LOW again and one that is LOW goes HIGH
\* again, each Wave having had a LOW->HIGH edge within its last
\* period_ticks + 2 ticks; after each write the noise pin holds the bit
\* next() returned last.
OutputsRunForever ==
    /\ <>Horizon
    /\ \A i \in Waves :
         /\ (pin[WavePin(i)] = 1 /\ CycleLeft(i)) ~> (pin[WavePin(i)] = 0)
         /\ (pin[WavePin(i)] = 0 /\ CycleLeft(i)) ~> (pin[WavePin(i)] = 1)
    /\ [](/\ \A i \in Waves :
               Begun(i) => /\ sinceRise[i] >= 0
                           /\ sinceRise[i] <= period_ticks(i) + 1
          /\ (Running /\ sub = "next" /\ b # -1) => pin[NoisePin] = b
          /\ (Running /\ sub = "write") => b \in {0, 1})

C15Witness ==
    /\ loops = MaxLoops /\ sub = "next" /\ pin[NoisePin] = b
    /\ \A i \in Waves : rises[i] >= 2 /\ pin[WavePin(i)] = 0

\* C16: every tick(), whatever the counter, executes the comparison with
\* period_ticks, one write of the counter (increment or reset), the
\* comparison with half_period_ticks and one pin call (setHigh or setLow),
\* and nothing else.
TickDoesConstantWork ==
    \A i \in Waves :
        ops[i] # <<>> =>
            /\ Len(ops[i]) = 4
            /\ ops[i][1] = "cmp_period"
            /\ ops[i][2] \in {"inc", "reset"}
            /\ ops[i][3] = "cmp_half"
            /\ ops[i][4] \in {"setHigh", "setLow"}
            /\ (ops[i][2] = "reset" <=> counter[i] = 0)
            /\ (ops[i][4] = "setHigh" <=> pin[WavePin(i)] = 1)

C16Witness ==
    /\ ops[1] = <<"cmp_period", "reset", "cmp_half", "setHigh">>
    /\ ops[2] = <<"cmp_period", "inc", "cmp_half", "setLow">>
    /\ ops[3] = <<"cmp_period", "inc", "cmp_half", "setHigh">>
    /\ hticks[1] > 0

OrbitCalls == Word - 1

\* lsfr1.next(), the calls counted
LFSR_call ==
    /\ loops < OrbitCalls
    /\ next
    /\ loops' = loops + 1
    /\ UNCHANGED <<freq, mpc, sub, bi, I, timerRegs, OCF0A, isr, counter, pin, ddr,
                   fires, acks, hticks, waveObs, writers>>

NextOrbit == LFSR_call

SpecOrbit == Init /\ [][NextOrbit]_vars

\* the register value from which next() produces r
StateBefore(r) ==
    ((r % 2^15) * 2)
    + ((BitAt(r, 15) + BitAt(r, 0) + BitAt(r, 2) + BitAt(r, 11)) % 2)

\* C18: from seed 0xA1E the register is back at 0xA1E after 65535 calls
\* and not before; next() is one-to-one (each value has one predecessor),
\* so the 65535 values on the way are distinct and non-zero, i.e. every
\* non-zero 16-bit value is visited exactly once.
LfsrIsMaximalLength ==
    /\ [](/\ reg \in 1..(Word - 1)
          /\ (reg = lsfr1_seed <=> loops \in {0, Word - 1}))
    /\ [][reg = StateBefore(reg')]_vars

C18Witness == loops = Word - 1 /\ reg = lsfr1_seed /\ b \in {0, 1}

\* C19: no handler invocation happens before setup() has finished and
\* sei() has run: until then interrupts are disabled, even with a compare
\* match pending, so the tick() of a begin() is never made with the
\* handler able to run, and the handler runs only after all four begin().
NoFireBeforeSetupDone ==
    /\ Stmt \in {"setup", "sei"} =>
         /\ ~I /\ isr = 0 /\ fires = 0
         /\ \A i \in Waves : hticks[i] = 0
    /\ <<"main", TRUE>> \notin (writers["counter"] \cup writers["wavepin"])
    /\ (fires > 0 \/ isr # 0) => (Running /\ bi = 5)

C19Witness == Stmt = "sei" /\ OCF0A /\ OCIE0A /\ bi = 5

\* C20: for the four configured Waves the period computed at line 29 is
\* below 256, so period_ticks holds it untruncated, and the counter, at
\* most period_ticks + 1, stays below 256: no increment wraps.
FitsEightBits ==
    /\ [](\A i \in Waves :
            LET q == (1000000 \div freq[i]) \div timer_period_us
            IN /\ q < Byte
               /\ period_ticks(i) = q
               /\ counter[i] <= q + 1
               /\ q + 1 < Byte)
    /\ [][\A i \in Waves :
            counter'[i] # counter[i] =>
                \/ counter'[i] = counter[i] + 1
                \/ counter'[i] = 0 /\ counter[i] > period_ticks(i)]_vars

C20Witness == counter[3] = 154 /\ period_ticks(3) = 153 /\ hticks[3] = 153

====
